---- MODULE Spec2Model ----
(***************************************************************************)
(* Model of the syscall-table crate: the word codec (ToIsize, ToUsize,     *)
(* FromArgs), the handler wrapper (Service), the runtime registry (Table)  *)
(* and the link-time registry (ServiceWrapper list, invoke_call_id!,       *)
(* invoke_call!).                                                          *)
(*                                                                         *)
(* Integers are kept at their real width: a value is a little-endian       *)
(* sequence of bytes, so a machine word is 8 bytes and an `as` cast is     *)
(* truncation or sign/zero extension on the byte sequence.                 *)
(***************************************************************************)
EXTENDS Integers, Sequences, FiniteSets, TLC

\* --------------------------------------------------------------- bounds
\* Longest word slice handed to a decode or a call.
MaxLen == 7
\* Table ids range over 0..MaxId.
MaxId == 1
\* The calls through the Table use ids 0..MaxCallId.
MaxCallId == 0
\* Longest collected ServiceWrapper list.
MaxEntries == 2

\* ------------------------------------------------------------ constants
\* Width of usize / isize / a raw pointer in bytes (64-bit target).
PtrBytes == 8
\* ServiceWrapper.id is a u16: ids are taken modulo 2^16.
U16Mod == 65536
\* from_args_tuple! is instantiated for tuples of 1..6 positions.
MaxArity == 6

\* ------------------------------------------------------------ integers
ScalarTypes ==
    {"u8", "u16", "u32", "u64", "usize", "i8", "i16", "i32", "i64", "isize"}

PointerTypes == {"ptr_const", "ptr_mut"}

SizeOf(t) ==
    CASE t \in {"u8", "i8"} -> 1
      [] t \in {"u16", "i16"} -> 2
      [] t \in {"u32", "i32"} -> 4
      [] t \in {"u64", "i64"} -> 8
      [] t \in {"usize", "isize"} \cup PointerTypes -> PtrBytes
      [] t = "unit" -> 0

Signed(t) == t \in {"i8", "i16", "i32", "i64", "isize"}

\* Two's complement bytes of the integer n, least significant first.
RECURSIVE IntToBytes(_, _)
IntToBytes(n, k) ==
    IF k = 0 THEN <<>> ELSE <<n % 256>> \o IntToBytes(n \div 256, k - 1)

\* A typed value: its type and its bytes.
Val(t, n) == [ty |-> t, bytes |-> IntToBytes(n, SizeOf(t))]

UnitVal == [ty |-> "unit", bytes |-> <<>>]

\* A machine word holding n.
W(n) == IntToBytes(n, PtrBytes)

\* `v as t` between integer (and pointer) types: truncate to the low bytes,
\* or extend with the sign of the SOURCE type.
Cast(v, t) ==
    LET m == Len(v.bytes)
        n == SizeOf(t)
        fill == IF Signed(v.ty) /\ m >= 1 /\ v.bytes[m] >= 128 THEN 255 ELSE 0
    IN  [ty |-> t,
         bytes |-> [i \in 1..n |-> IF i <= m THEN v.bytes[i] ELSE fill]]

\* A word seen as a usize value, and back.
AsUsize(w) == [ty |-> "usize", bytes |-> w]

\* ------------------------------------------------------------- ToIsize
\* to_isize: the unit value is 0, a scalar is `self as isize`, a Result is
\* the encoding of whichever branch it holds.
RECURSIVE to_isize(_)

\* Mutant of to_isize: the Err branch is reported as -1.
to_isize_err_tagged(v) ==
    CASE v.ty = "unit" -> W(0)
      [] v.ty = "Result" -> IF v.ok THEN to_isize(v.inner) ELSE W(-1)
      [] OTHER -> Cast(v, "isize").bytes

\* Mutant of to_isize: scalars go through i32 on the way to isize.
to_isize_via_i32(v) ==
    CASE v.ty = "unit" -> W(0)
      [] v.ty = "Result" -> to_isize(v.inner)
      [] OTHER -> Cast(Cast(v, "i32"), "isize").bytes

to_isize(v) ==
    CASE v.ty = "unit" -> W(0)
      [] v.ty = "Result" -> to_isize(v.inner)
      [] OTHER -> Cast(v, "isize").bytes

OkVal(v) == [ty |-> "Result", ok |-> TRUE, inner |-> v]
ErrVal(v) == [ty |-> "Result", ok |-> FALSE, inner |-> v]

\* -------------------------------------------------------------- ToUsize
\* to_usize: `self as usize` for scalars and pointers, 0 for the unit value.
to_usize(v) ==
    IF v.ty = "unit" THEN W(0) ELSE Cast(v, "usize").bytes

\* ------------------------------------------------------------- FromArgs
Ok(v) == [tag |-> "Ok", val |-> v]
Err(t) == [tag |-> "Err", msg |-> <<t, ":args.len() < 1">>]
SlicePanic == [tag |-> "Panic", why |-> "slice"]

\* The pointer impls sit outside the macro, so stringify!($ident) names no type.
ErrName(t) == IF t \in PointerTypes THEN "$ident" ELSE t

\* FromArgs for (): always Ok, whatever the slice.
FromUnit(args) == Ok(UnitVal)

\* Mutant of FromWord: a missing word decodes as 0 instead of failing.
FromWordOrZero(t, args) ==
    IF Len(args) >= 1 THEN Ok(Cast(AsUsize(args[1]), t))
    ELSE Ok(Cast(AsUsize(W(0)), t))

\* FromArgs for a scalar or a raw pointer: word 0 cast to the type.
FromWord(t, args) ==
    IF Len(args) >= 1 THEN Ok(Cast(AsUsize(args[1]), t)) ELSE Err(ErrName(t))

FromAtom(t, args) == IF t = "unit" THEN FromUnit(args) ELSE FromWord(t, args)

\* &args[n..] is in range when n <= args.len(); otherwise the index panics.
SliceInRange(args, n) == n <= Len(args)

\* Mutant of SliceFrom: every position decodes from the start of the slice.
SliceFromStart(args, n) == args

SliceFrom(args, n) == SubSeq(args, n + 1, Len(args))

\* FromArgs for a tuple: position n decodes from &args[n..], in order, and
\* the first Err is returned by `?`.
RECURSIVE FromTupleAt(_, _, _, _)
FromTupleAt(tys, args, n, acc) ==
    IF n = Len(tys) THEN Ok(acc)
    ELSE IF ~SliceInRange(args, n) THEN SlicePanic
    ELSE LET r == FromAtom(tys[n + 1], SliceFrom(args, n))
         IN  IF r.tag # "Ok" THEN r
             ELSE FromTupleAt(tys, args, n + 1, Append(acc, r.val))

FromTuple(tys, args) == FromTupleAt(tys, args, 0, <<>>)

\* A target shape of FromArgs::from: (), one scalar or pointer, or a tuple.
UnitShape == [kind |-> "unit", tys |-> <<>>]
AtomShape(t) == [kind |-> "atom", tys |-> <<t>>]
TupleShape(tys) == [kind |-> "tuple", tys |-> tys]

From(shape, args) ==
    CASE shape.kind = "unit" -> FromUnit(args)
      [] shape.kind = "atom" -> FromWord(shape.tys[1], args)
      [] shape.kind = "tuple" -> FromTuple(shape.tys, args)

\* ------------------------------------------------------------- handlers
\* A handler is a function with a fixed list of positions (params) and a
\* body.  These are the functions the crate's tests and examples register,
\* and generic ones for every arity 0..6.
Handler(name, params, body) == [name |-> name, params |-> params, body |-> body]

empty_arg == Handler("empty_arg", <<>>, "zero")
add == Handler("add", <<"usize", "usize">>, "add")
result_fn == Handler("result_fn", <<>>, "err_m2")
id_i8 == Handler("id_i8", <<"i8">>, "id")
unit1 == Handler("unit1", <<"unit">>, "pack")
pack2 == Handler("pack2", <<"u16", "unit">>, "pack")
pack3 == Handler("pack3", <<"usize", "usize", "ptr_const">>, "pack")
pack4 == Handler("pack4", <<"i8", "u16", "i32", "u64">>, "pack")
pack5 == Handler("pack5", <<"unit", "usize", "i16", "ptr_mut", "u32">>, "pack")
pack6 == Handler("pack6", <<"usize", "i64", "isize", "u8", "i8", "u16">>, "pack")

\* The handlers registered in a Table: every arity 0..6.
Handlers ==
    {empty_arg, result_fn, add, id_i8, unit1, pack2, pack3, pack4, pack5, pack6}

Arity(h) == Len(h.params)

\* a + b on two words, byte by byte: <<wrapped sum, carry out>>.
RECURSIVE AddFrom(_, _, _, _)
AddFrom(a, b, i, carry) ==
    IF i > Len(a) THEN <<<<>>, carry>>
    ELSE LET s == a[i] + b[i] + carry
             rest == AddFrom(a, b, i + 1, s \div 256)
         IN  <<(<<s % 256>> \o rest[1]), rest[2]>>

Returned(v) == [tag |-> "Ret", val |-> v]
HandlerPanic == [tag |-> "Panic", why |-> "handler"]

\* The body of a handler applied to its decoded arguments.  `checks` is the
\* build's overflow-checks setting: with it, `a + b` panics on overflow.
HandlerBody(h, args, checks) ==
    CASE h.body = "zero" -> Returned(Val("isize", 0))
      [] h.body = "err_m2" -> Returned(ErrVal(Val("i32", -2)))
      [] h.body = "ok_1" -> Returned(OkVal(Val("usize", 1)))
      [] h.body = "id" -> Returned(args[1])
      [] h.body = "add" ->
            LET s == AddFrom(args[1].bytes, args[2].bytes, 1, 0)
            IN  IF checks /\ s[2] = 1 THEN HandlerPanic
                ELSE Returned(Cast([ty |-> "usize", bytes |-> s[1]], "isize"))
      [] h.body = "pack" ->
            Returned([ty |-> "isize",
                      bytes |-> [i \in 1..PtrBytes |->
                                   IF i <= Len(args) /\ args[i].ty # "unit"
                                   THEN args[i].bytes[1] ELSE 0]])

\* UniFn::call: the tuple is unpacked positionally into the call.
UniFnCall(h, args, checks) == HandlerBody(h, args, checks)

\* The Args type of a handler: () for arity 0, else the tuple of its positions.
ArgsShape(h) == IF Arity(h) = 0 THEN UnitShape ELSE TupleShape(h.params)

\* The decoded Args value as the sequence of arguments of the call.
ArgSeq(shape, val) == IF shape.kind = "unit" THEN <<>> ELSE val

\* -------------------------------------------------------------- Service
\* The outcome of running a Service closure: a signed word or a panic, and
\* `ran`, the handler invocations it made.
UnwrapPanic == [tag |-> "Panic", why |-> "unwrap"]

Outcome(tag, why, word, ran) ==
    [tag |-> tag, why |-> why, word |-> word, ran |-> ran]

\* Service::from_handler's closure, run by Service::handle:
\*   let args = Args::from(args).unwrap(); handler.call(args).to_isize()
ServiceHandle(h, args, checks) ==
    LET d == From(ArgsShape(h), args)
    IN  IF d.tag = "Panic" THEN Outcome("Panic", d.why, <<>>, <<>>)
        ELSE IF d.tag = "Err" THEN Outcome("Panic", UnwrapPanic.why, <<>>, <<>>)
        ELSE LET a == ArgSeq(ArgsShape(h), d.val)
                 r == UniFnCall(h, a, checks)
                 call == [h |-> h.name, args |-> a]
             IN  IF r.tag = "Panic" THEN Outcome("Panic", r.why, <<>>, <<call>>)
                 ELSE Outcome("Ret", "", to_isize(r.val), <<call>>)

\* ---------------------------------------------------------------- Table
\* Table.map is a BTreeMap<usize, Service>: a sequence of entries kept in
\* ascending key order, one entry per key.
Entry(id, h) == [id |-> id, svc |-> h]

Some(v) == [tag |-> "Some", val |-> v]
None == [tag |-> "None"]

MapIndex(m, id) ==
    IF \E i \in 1..Len(m) : m[i].id = id
    THEN CHOOSE i \in 1..Len(m) :
            m[i].id = id /\ \A j \in 1..(i - 1) : m[j].id # id
    ELSE 0

\* Mutant of MapInsert: an existing key keeps its old value.
MapInsertKeepOld(m, id, h) ==
    LET i == MapIndex(m, id)
        pos == Cardinality({j \in 1..Len(m) : m[j].id < id})
    IN  IF i > 0 THEN m
        ELSE SubSeq(m, 1, pos) \o <<Entry(id, h)>> \o SubSeq(m, pos + 1, Len(m))

\* BTreeMap::insert: replace the value of an existing key, else insert in
\* key order.
MapInsert(m, id, h) ==
    LET i == MapIndex(m, id)
        pos == Cardinality({j \in 1..Len(m) : m[j].id < id})
    IN  IF i > 0 THEN [m EXCEPT ![i] = Entry(id, h)]
        ELSE SubSeq(m, 1, pos) \o <<Entry(id, h)>> \o SubSeq(m, pos + 1, Len(m))

\* Mutant of MapRemove: the entry stays in the map.
MapRemoveKeep(m, id) == m

\* BTreeMap::remove: take the entry out and return its value.
MapRemove(m, id) ==
    LET i == MapIndex(m, id)
    IN  IF i > 0 THEN SubSeq(m, 1, i - 1) \o SubSeq(m, i + 1, Len(m)) ELSE m

\* BTreeMap::get.
MapGet(m, id) ==
    LET i == MapIndex(m, id) IN IF i > 0 THEN Some(m[i].svc) ELSE None

\* Table::do_call: self.map.get(&id).map(|x| x.handle(args)).
\* The result is None, Some(word), or the panic of the Service.
do_call(m, id, args, checks) ==
    LET g == MapGet(m, id)
    IN  IF g.tag = "None" THEN Outcome("None", "", <<>>, <<>>)
        ELSE LET r == ServiceHandle(g.val, args, checks)
             IN  IF r.tag = "Panic" THEN r
                 ELSE Outcome("Some", "", r.word, r.ran)

\* ----------------------------------------------------------- word slices
WordsA == <<W(2), W(4), W(1), W(255), W(256), W(-2), W(65535), W(128)>>
WordsB == <<W(-2), W(2), W(-129), W(128), W(3), W(1), W(0), W(70000)>>

WordAt(base, i) ==
    CASE i > Len(WordsA) -> W(i)
      [] base = "A" -> WordsA[i]
      [] OTHER -> WordsB[i]

Slice(base, n) == [i \in 1..n |-> WordAt(base, i)]

\* The word slices handed to calls and decodes: every prefix of A and of B.
Slices == {Slice(b, n) : b \in {"A", "B"}, n \in 0..MaxLen}

Ids == 0..MaxId
CallIds == 0..MaxCallId

\* ---------------------------------------------------------------- state
VARIABLES
    map,             \* Table.map
    inventory,       \* the collected ServiceWrapper list, in iteration order
    overflow_checks, \* the build's overflow-checks setting
    ret,             \* the last operation: its inputs and its outcome
    aborted,         \* a panic has ended the program
    ghost            \* per id: the history of register / remove on the Table

vars == <<map, inventory, overflow_checks, ret, aborted, ghost>>

NoHandler == Handler("", <<>>, "zero")

Never == [st |-> "never", h |-> NoHandler]

\* Table::register(id, func).
Register(id, h) ==
    /\ ~aborted
    /\ map' = MapInsert(map, id, h)
    /\ ret' = [op |-> "register", id |-> id, h |-> h,
                replaced |-> MapGet(map, id)]
    /\ ghost' = [ghost EXCEPT ![id] = [st |-> "live", h |-> h]]
    /\ UNCHANGED <<inventory, overflow_checks, aborted>>

\* Table::remove(id).
Remove(id) ==
    /\ ~aborted
    /\ map' = MapRemove(map, id)
    /\ ret' = [op |-> "remove", id |-> id, out |-> MapGet(map, id)]
    /\ ghost' = [ghost EXCEPT ![id] =
                    IF ghost[id].st = "never" THEN Never
                    ELSE [st |-> "removed", h |-> NoHandler]]
    /\ UNCHANGED <<inventory, overflow_checks, aborted>>

\* Table::do_call(id, args).
DoCall(id, args) ==
    /\ ~aborted
    /\ LET out == do_call(map, id, args, overflow_checks)
       IN  /\ ret' = [op |-> "do_call", id |-> id, words |-> args, out |-> out]
           /\ aborted' = (out.tag = "Panic")
    /\ UNCHANGED <<map, inventory, overflow_checks, ghost>>

\* ------------------------------------------------- the runtime registry
\* Table::new(), with the handlers the registry operations are exercised on.
TableHandlers == {add, result_fn, unit1}

InitTable ==
    /\ map = <<>>
    /\ inventory = <<>>
    /\ overflow_checks = FALSE
    /\ ret = [op |-> "none"]
    /\ aborted = FALSE
    /\ ghost = [i \in Ids |-> Never]

NextTable ==
    \/ \E id \in Ids, h \in TableHandlers : Register(id, h)
    \/ \E id \in Ids : Remove(id)
    \/ \E id \in Ids, args \in Slices : DoCall(id, args)

SpecTable == InitTable /\ [][NextTable]_vars

\* ------------------------------------------ calls through the Table
\* Every handler, under either build setting.
InitCall ==
    /\ map = <<>>
    /\ inventory = <<>>
    /\ overflow_checks \in BOOLEAN
    /\ ret = [op |-> "none"]
    /\ aborted = FALSE
    /\ ghost = [i \in Ids |-> Never]

NextCall ==
    \/ \E id \in CallIds, h \in Handlers : Register(id, h)
    \/ \E id \in CallIds : Remove(id)
    \/ \E id \in CallIds, args \in Slices : DoCall(id, args)

SpecCall == InitCall /\ [][NextCall]_vars

\* -------------------------------------------------- link-time registry
\* What #[syscall_func(N)] emits for handler f: the function __f, which is
\*   register(f) -> Service::from_handler -> service.handle(p).
\* Mutant: the wrapper hands the Service the slice without its first word.
SyscallWrapperSkipsWord(h, p, checks) ==
    ServiceHandle(h, SubSeq(p, 2, Len(p)), checks)

SyscallWrapper(h, p, checks) == ServiceHandle(h, p, checks)

\* A collected ServiceWrapper: its u16 id and its service, which is either
\* the __f of a #[syscall_func] handler or a function submitted by hand
\* (fake in examples/lazy.rs, which ignores its words and returns 0).
Wrapper(id, h) == [id |-> id, raw |-> FALSE, h |-> h]
RawWrapper(id, name) == [id |-> id, raw |-> TRUE, h |-> Handler(name, <<>>, "zero")]

\* (wrapper.service)(&p)
WrapperService(e, p, checks) ==
    IF e.raw THEN Outcome("Ret", "", W(0), <<>>)
    ELSE SyscallWrapper(e.h, p, checks)

\* The outcome of an invoke macro: the Service outcome and `entry`, the index
\* in the collected list of the entry whose service was invoked (0: none).
LinkOutcome(o, entry) ==
    [tag |-> o.tag, why |-> o.why, word |-> o.word, ran |-> o.ran,
     entry |-> entry]

UnknownId == Outcome("Panic", "unknown_id", <<>>, <<>>)

\* Mutant of search_run: the last matching entry is invoked.
search_run_last(list, id, p, checks) ==
    LET matches == {i \in 1..Len(list) : list[i].id = id}
    IN  IF matches = {} THEN LinkOutcome(UnknownId, 0)
        ELSE LET i == CHOOSE i \in matches : \A j \in matches : j <= i
             IN  LinkOutcome(WrapperService(list[i], p, checks), i)

\* search_run: for wrapper in iter { if id == wrapper.id { return ... } }
\* and panic!("can't find id") after the loop.
RECURSIVE search_run_from(_, _, _, _, _)
search_run_from(list, i, id, p, checks) ==
    IF i > Len(list) THEN LinkOutcome(UnknownId, 0)
    ELSE IF id = list[i].id
         THEN LinkOutcome(WrapperService(list[i], p, checks), i)
         ELSE search_run_from(list, i + 1, id, p, checks)

search_run(list, id, p, checks) == search_run_from(list, 1, id, p, checks)

\* Mutant of AsU16: the number is compared at full width.
AsWide(n) == n

\* `$number as u16`
AsU16(n) == n % U16Mod

\* let p = [$(ToUsize::to_usize($arg)),*];
ArgWords(args) == [i \in 1..Len(args) |-> to_usize(args[i])]

\* invoke_call_id!(number, args...)
invoke_call_id(list, number, args, checks) ==
    search_run(list, AsU16(number), ArgWords(args), checks)

\* The entry the symbol __name is bound to: the #[syscall_func] handler of
\* that name (0 when the program defines none, and the call does not link).
SymbolEntry(list, name) ==
    IF \E i \in 1..Len(list) : ~list[i].raw /\ list[i].h.name = name
    THEN CHOOSE i \in 1..Len(list) : ~list[i].raw /\ list[i].h.name = name
    ELSE 0

\* invoke_call!(name, args...): calls __name(&p) directly.
invoke_call(list, name, args, checks) ==
    LET i == SymbolEntry(list, name)
    IN  LinkOutcome(SyscallWrapper(list[i].h, ArgWords(args), checks), i)

\* The contributions of examples/test.rs and examples/lazy.rs.
test_write == Handler("test_write", <<"usize">>, "zero")
result_fn2 == Handler("result_fn2", <<>>, "ok_1")

Contributions ==
    {Wrapper(3, add), RawWrapper(3, "fake"), Wrapper(5, empty_arg),
     Wrapper(8, result_fn2), Wrapper(1, test_write)}

\* The requested numbers and the argument lists of the invoke macros.
Numbers == {1, 2, 3, 5, 8, U16Mod + 2, U16Mod + 3, 2 * U16Mod + 8}

ArgLists ==
    {<<>>,
     <<Val("usize", 2), Val("usize", 4)>>,
     <<Val("i32", -2), Val("usize", 2)>>,
     <<Val("usize", 99)>>,
     <<Val("usize", 1), Val("usize", 2), Val("u8", 7)>>}

Injective(l) == \A i, j \in 1..Len(l) : l[i] = l[j] => i = j

\* Every order in which up to MaxEntries contributions can be collected.
CollectedLists ==
    UNION {{l \in [1..n -> Contributions] : Injective(l)} : n \in 0..MaxEntries}

InitLink ==
    /\ map = <<>>
    /\ inventory \in CollectedLists
    /\ overflow_checks \in BOOLEAN
    /\ ret = [op |-> "none"]
    /\ aborted = FALSE
    /\ ghost = [i \in Ids |-> Never]

InvokeCallId(number, args) ==
    /\ ~aborted
    /\ LET out == invoke_call_id(inventory, number, args, overflow_checks)
       IN  /\ ret' = [op |-> "invoke_call_id", number |-> number,
                      args |-> args, out |-> out]
           /\ aborted' = (out.tag = "Panic")
    /\ UNCHANGED <<map, inventory, overflow_checks, ghost>>

InvokeCall(name, args) ==
    /\ ~aborted
    /\ SymbolEntry(inventory, name) # 0
    /\ LET out == invoke_call(inventory, name, args, overflow_checks)
       IN  /\ ret' = [op |-> "invoke_call", name |-> name,
                      args |-> args, out |-> out]
           /\ aborted' = (out.tag = "Panic")
    /\ UNCHANGED <<map, inventory, overflow_checks, ghost>>

NextLink ==
    \/ \E number \in Numbers, args \in ArgLists : InvokeCallId(number, args)
    \/ \E e \in Contributions, args \in ArgLists : InvokeCall(e.h.name, args)

SpecLink == InitLink /\ [][NextLink]_vars

\* ------------------------------------------------------ the word codec
\* The values the codec is exercised on.  A scalar value is given by its
\* type and bytes; the bytes are drawn from boundary patterns.
SampleBytes == {0, 1, 127, 128, 255}

BytePatterns(n) ==
    IF n <= 2 THEN [1..n -> SampleBytes]
    ELSE {[i \in 1..n |-> IF i = 1 THEN lo ELSE IF i = n THEN hi ELSE mid] :
            lo \in SampleBytes, mid \in SampleBytes, hi \in SampleBytes}

ScalarValues ==
    UNION {{[ty |-> t, bytes |-> b] : b \in BytePatterns(SizeOf(t))} :
              t \in ScalarTypes}

\* Small integers, for the values whose number is stated.
SampleInts == {-70000, -129, -128, -2, -1, 0, 1, 2, 127, 128, 255, 256, 65535, 70000}

InRange(t, n) ==
    CASE t = "u8" -> 0 <= n /\ n <= 255
      [] t = "i8" -> -128 <= n /\ n <= 127
      [] t = "u16" -> 0 <= n /\ n <= 65535
      [] t = "i16" -> -32768 <= n /\ n <= 32767
      [] OTHER -> Signed(t) \/ n >= 0

\* The shapes FromArgs::from is exercised on.
TupleShapes ==
    {TupleShape(h.params) : h \in {h \in Handlers : Arity(h) >= 1}}
        \cup {TupleShape(<<"unit", "unit">>),
              TupleShape(<<"usize", "unit", "unit">>),
              TupleShape(<<"usize">>)}

Shapes ==
    {UnitShape} \cup {AtomShape(t) : t \in ScalarTypes \cup PointerTypes}
        \cup TupleShapes

\* The number of typed values a shape decodes to.
ShapeCount(shape) == IF shape.kind = "unit" THEN 0 ELSE Len(shape.tys)

\* The calls into the codec: each behaviour makes one of them.
CodecCalls ==
    {[op |-> "call", f |-> "from", shape |-> sh, words |-> w] :
        sh \in Shapes, w \in Slices}
    \cup {[op |-> "call", f |-> "to_isize", wrap |-> wr, ty |-> t, n |-> n] :
            wr \in {"plain", "Ok", "Err"},
            t \in ScalarTypes \cup {"unit"},
            n \in SampleInts}
    \cup {[op |-> "call", f |-> "roundtrip", val |-> v] : v \in ScalarValues}

InitCodec ==
    /\ map = <<>>
    /\ inventory = <<>>
    /\ overflow_checks = FALSE
    /\ ret \in CodecCalls
    /\ aborted = FALSE
    /\ ghost = [i \in Ids |-> Never]

\* <Shape as FromArgs>::from(args)
Decode ==
    /\ ~aborted
    /\ ret.op = "call" /\ ret.f = "from"
    /\ LET res == From(ret.shape, ret.words)
       IN  /\ ret' = [op |-> "from", shape |-> ret.shape, words |-> ret.words,
                      res |-> res]
           /\ aborted' = (res.tag = "Panic")
    /\ UNCHANGED <<map, inventory, overflow_checks, ghost>>

\* The result value of a handler: bare, or the Ok or Err of a Result.
Wrapped(wrap, v) ==
    CASE wrap = "plain" -> v
      [] wrap = "Ok" -> OkVal(v)
      [] wrap = "Err" -> ErrVal(v)

\* v.to_isize() for the unit value or the scalar of type ty holding n.
Encode ==
    /\ ~aborted
    /\ ret.op = "call" /\ ret.f = "to_isize"
    /\ ret.ty # "unit" => InRange(ret.ty, ret.n)
    /\ LET v == Wrapped(ret.wrap,
                        IF ret.ty = "unit" THEN UnitVal ELSE Val(ret.ty, ret.n))
       IN  ret' = [op |-> "to_isize", val |-> v, n |-> ret.n,
                   word |-> to_isize(v)]
    /\ UNCHANGED <<map, inventory, overflow_checks, aborted, ghost>>

\* One handler's result passed on as another's word 0:
\*   T::from(&[v.to_isize() as usize])
RoundTrip ==
    /\ ~aborted
    /\ ret.op = "call" /\ ret.f = "roundtrip"
    /\ LET word == to_isize(ret.val)
           back == Cast([ty |-> "isize", bytes |-> word], "usize").bytes
       IN  ret' = [op |-> "roundtrip", val |-> ret.val, word |-> word,
                   res |-> From(AtomShape(ret.val.ty), <<back>>)]
    /\ UNCHANGED <<map, inventory, overflow_checks, aborted, ghost>>

NextCodec == Decode \/ Encode \/ RoundTrip

SpecCodec == InitCodec /\ [][NextCodec]_vars

\* ------------------------------------------------- claims on the Table
\* What do_call is expected to return for handler h on slice w, stated from
\* the positions: argument n is word w[n] cast to the type of position n.
ExpectedArgs(h, w) ==
    [n \in 1..Arity(h) |->
        IF h.params[n] = "unit" THEN UnitVal
        ELSE Cast(AsUsize(w[n]), h.params[n])]

SamePrefix(w1, w2, k) == \A n \in 1..k : w1[n] = w2[n]

CallOfLive == ret.op = "do_call" /\ ghost[ret.id].st = "live"

\* C1: for a handler h of arity k registered under id and a slice w of at
\* least k words, do_call(id, w) returns Some(to_isize(h(a_0..a_{k-1}))) with
\* a_n = w[n] cast to the type of position n, h being called once with exactly
\* these arguments; and every slice with the same first k words gives the same
\* result.  (When h itself panics there is no h(a) and the call panics.)
C1_CallReturnsEncodedResult ==
    (CallOfLive /\ Len(ret.words) >= Arity(ghost[ret.id].h)) =>
        LET h == ghost[ret.id].h
            a == ExpectedArgs(h, ret.words)
            r == HandlerBody(h, a, overflow_checks)
        IN  /\ IF r.tag = "Panic"
               THEN ret.out.tag = "Panic" /\ ret.out.why = "handler"
               ELSE /\ ret.out.tag = "Some"
                    /\ ret.out.word = to_isize(r.val)
            /\ ret.out.ran = <<[h |-> h.name, args |-> a]>>
            /\ \A w2 \in Slices :
                  (Len(w2) >= Arity(h) /\ SamePrefix(ret.words, w2, Arity(h))) =>
                      do_call(map, ret.id, w2, overflow_checks) = ret.out

\* C1 witness: a handler of arity 6 called with 7 words returned Some.
C1_Witness ==
    /\ CallOfLive
    /\ ghost[ret.id].h = pack6
    /\ Len(ret.words) = MaxArity + 1
    /\ ret.out.tag = "Some"

\* C2: do_call(id, w) returns None exactly when id is not currently
\* registered (never registered, or removed since its last register), for
\* every w including the empty slice, and never panics then.
C2_NoneIffNotRegistered ==
    /\ ret.op = "do_call" =>
          (ret.out.tag = "None" <=> ghost[ret.id].st # "live")
    /\ \A id \in Ids :
          ghost[id].st # "live" =>
              do_call(map, id, <<>>, overflow_checks).tag = "None"

\* C2 witness: a call with the empty slice on an id that was registered and
\* then removed returned None.
C2_Witness ==
    /\ ret.op = "do_call"
    /\ ghost[ret.id].st = "removed"
    /\ ret.words = <<>>
    /\ ret.out.tag = "None"

EntriesOf(m, id) == {i \in 1..Len(m) : m[i].id = id}

\* C3: register overwrites: the Table holds exactly one entry for a
\* registered id and none for any other; do_call runs the handler of the most
\* recent register; after remove(id) no entry for id is left.
C3_RegisterOverwrites ==
    /\ \A id \in Ids :
          Cardinality(EntriesOf(map, id)) = IF ghost[id].st = "live" THEN 1 ELSE 0
    /\ ret.op = "register" => MapGet(map, ret.id) = Some(ret.h)
    /\ ret.op = "remove" => EntriesOf(map, ret.id) = {}
    /\ CallOfLive =>
          LET r == ServiceHandle(ghost[ret.id].h, ret.words, overflow_checks)
          IN  /\ ret.out.tag = (IF r.tag = "Panic" THEN "Panic" ELSE "Some")
              /\ ret.out.word = r.word
              /\ ret.out.ran = r.ran

\* C3 witness: a register has just replaced a different handler under the
\* same id while another id is registered, and a call on the id gives the new
\* handler's word, not the old one's.
C3_Witness ==
    /\ ret.op = "register"
    /\ ret.replaced.tag = "Some"
    /\ ret.replaced.val = add
    /\ ret.h = result_fn
    /\ Len(map) = 2
    /\ do_call(map, ret.id, <<W(2), W(4)>>, overflow_checks).word = W(-2)
    /\ ServiceHandle(add, <<W(2), W(4)>>, overflow_checks).word = W(6)

\* C4 as stated: a call with fewer words than the handler's arity panics
\* without running the handler.
C4_Original ==
    (CallOfLive /\ Len(ret.words) < Arity(ghost[ret.id].h)) =>
        (ret.out.tag = "Panic" /\ ret.out.ran = <<>>)

\* One word is missing and the last position is unit-typed.
LastUnitOnly(h, w) ==
    /\ Arity(h) >= 1
    /\ Len(w) = Arity(h) - 1
    /\ h.params[Arity(h)] = "unit"

\* C4 amended: a call with fewer words than the handler's arity panics in the
\* decode, before the handler runs, unless exactly one word is missing and the
\* handler's last position is unit-typed; in that case the decode succeeds and
\* the handler runs.
C4_ShortCallAborts ==
    (CallOfLive /\ Len(ret.words) < Arity(ghost[ret.id].h)) =>
        IF LastUnitOnly(ghost[ret.id].h, ret.words)
        THEN ret.out.tag = "Some" /\ Len(ret.out.ran) = 1
        ELSE /\ ret.out.tag = "Panic"
             /\ ret.out.why \in {"unwrap", "slice"}
             /\ ret.out.ran = <<>>

\* C4 witness: add (arity 2) called with one word panicked in the unwrap.
C4_Witness ==
    /\ CallOfLive
    /\ ghost[ret.id].h = add
    /\ Len(ret.words) = 1
    /\ ret.out.tag = "Panic"
    /\ ret.out.why = "unwrap"
    /\ aborted

\* ------------------------------------------ claims on the link registry
MatchesOf(list, id) == {i \in 1..Len(list) : list[i].id = id}

FirstOf(S) == CHOOSE i \in S : \A j \in S : i <= j

\* C5: invoke_call_id! invokes exactly the first entry, in iteration order,
\* whose id equals the requested id (the number as the u16 the macro compares)
\* and gives that entry's outcome, so no later entry with the same id runs;
\* when no entry has the id, it panics and invokes nothing.
C5_FirstMatchOrAbort ==
    ret.op = "invoke_call_id" =>
        LET matches == MatchesOf(inventory, ret.number % U16Mod)
            p == ArgWords(ret.args)
        IN  IF matches = {}
            THEN /\ ret.out.tag = "Panic"
                 /\ ret.out.why = "unknown_id"
                 /\ ret.out.entry = 0
                 /\ ret.out.ran = <<>>
            ELSE LET o == WrapperService(inventory[FirstOf(matches)], p,
                                         overflow_checks)
                 IN  /\ ret.out.entry = FirstOf(matches)
                     /\ ret.out.tag = o.tag
                     /\ ret.out.word = o.word
                     /\ ret.out.ran = o.ran
                     /\ ret.out.why # "unknown_id"

\* C5 witness: fake and add are both collected under id 3, fake first; a call
\* of id 3 with (2, 4) invoked fake alone and returned its 0, not add's 6.
C5_Witness ==
    /\ ret.op = "invoke_call_id"
    /\ inventory = <<RawWrapper(3, "fake"), Wrapper(3, add)>>
    /\ ret.number = 3
    /\ ret.args = <<Val("usize", 2), Val("usize", 4)>>
    /\ ret.out.tag = "Ret"
    /\ ret.out.entry = 1
    /\ ret.out.word = W(0)
    /\ ret.out.ran = <<>>

\* The signed word (or the panic) of an outcome, whatever path produced it.
Word(o) == IF o.tag = "Panic" THEN <<"panic", o.why>> ELSE <<"word", o.word>>

\* The three paths for handler f contributed under id N, on the same words.
ByName == ret.out
ById(e) == invoke_call_id(inventory, e.id, ret.args, overflow_checks)
ByTable(e) ==
    do_call(MapInsert(map, e.id, e.h), e.id, ArgWords(ret.args), overflow_checks)

\* invoke_call!(f, args...) gives to_isize(f(decoded args)).
NameCallIsEncodedResult(e) ==
    Len(ret.args) >= Arity(e.h) =>
        LET r == HandlerBody(e.h, ExpectedArgs(e.h, ArgWords(ret.args)),
                             overflow_checks)
        IN  Word(ByName) =
                IF r.tag = "Panic" THEN <<"panic", "handler">>
                ELSE <<"word", to_isize(r.val)>>

\* C8 as stated: for every collected list, invoke_call!(f, ...) with at least
\* as many arguments as f has positions gives the encoded result of f and the
\* same signed word as invoke_call_id!(N, ...) and as do_call on a Table where
\* f is registered.
C8_Original ==
    (ret.op = "invoke_call"
        /\ Len(ret.args) >= Arity(inventory[ret.out.entry].h)) =>
        LET e == inventory[ret.out.entry]
        IN  /\ NameCallIsEncodedResult(e)
            /\ Word(ByName) = Word(ById(e))
            /\ Word(ByName) = Word(ByTable(e))

\* C8 amended: invoke_call!(f, ...) gives the encoded result of f and the
\* same signed word as do_call on a Table where f is registered; it gives the
\* same signed word as invoke_call_id!(N, ...) when f's entry is the first
\* entry with id N in iteration order, and otherwise invoke_call_id!(N, ...)
\* invokes the earlier entry with id N instead of f.
C8_PathsAgree ==
    ret.op = "invoke_call" =>
        LET e == inventory[ret.out.entry]
            first == FirstOf(MatchesOf(inventory, e.id))
        IN  /\ NameCallIsEncodedResult(e)
            /\ Word(ByName) = Word(ByTable(e))
            /\ IF first = ret.out.entry
               THEN Word(ByName) = Word(ById(e)) /\ ById(e).entry = ret.out.entry
               ELSE ById(e).entry = first /\ first < ret.out.entry

\* C8 witness: add is the only entry with id 3 and invoke_call!(add, 2, 4)
\* returned 6, as invoke_call_id!(3, 2, 4) does.
C8_Witness ==
    /\ ret.op = "invoke_call"
    /\ ret.name = "add"
    /\ ret.args = <<Val("usize", 2), Val("usize", 4)>>
    /\ MatchesOf(inventory, 3) = {ret.out.entry}
    /\ ret.out.word = W(6)
    /\ ById(inventory[ret.out.entry]).word = W(6)

\* C10: a requested number n >= 65536 is looked up as n mod 65536: the call
\* does what the call of n mod 65536 does, invoking the first entry with that
\* id, and panics as unknown only when no entry has the id n mod 65536.
C10_NumberTruncatedTo16Bits ==
    (ret.op = "invoke_call_id" /\ ret.number >= U16Mod) =>
        LET low == ret.number % U16Mod
        IN  /\ ret.out =
                  search_run(inventory, low, ArgWords(ret.args), overflow_checks)
            /\ (ret.out.tag = "Panic" /\ ret.out.why = "unknown_id")
                  <=> MatchesOf(inventory, low) = {}
            /\ MatchesOf(inventory, low) # {} =>
                  ret.out.entry = FirstOf(MatchesOf(inventory, low))

\* C10 witness: the number 65536 + 3 invoked add, the entry with id 3.
C10_Witness ==
    /\ ret.op = "invoke_call_id"
    /\ ret.number = U16Mod + 3
    /\ inventory = <<Wrapper(3, add)>>
    /\ ret.args = <<Val("usize", 2), Val("usize", 4)>>
    /\ ret.out.tag = "Ret"
    /\ ret.out.entry = 1
    /\ ret.out.word = W(6)

\* --------------------------------------------------- claims on the codec
\* C6: a unit result encodes to 0; a scalar encodes to the word of the same
\* number; a Result encodes to the word of the branch it holds, by that
\* branch's own rule, Ok and Err alike, with no discriminant.
C6_ResultEncoding ==
    ret.op = "to_isize" =>
        LET inner == IF ret.val.ty = "Result" THEN ret.val.inner ELSE ret.val
        IN  /\ ret.word = (IF inner.ty = "unit" THEN W(0) ELSE W(ret.n))
            /\ Len(ret.word) = PtrBytes

\* C6 witness: Err(-2: i32) has been encoded to the word -2.
C6_Witness ==
    /\ ret.op = "to_isize"
    /\ ret.val = ErrVal(Val("i32", -2))
    /\ ret.word = <<254, 255, 255, 255, 255, 255, 255, 255>>

\* C7: a scalar value encoded with to_isize, taken as an unsigned word and
\* decoded as its own type from word index 0, comes back as Ok of itself.
C7_ScalarRoundTrip ==
    ret.op = "roundtrip" => ret.res = Ok(ret.val)

\* C7 witness: a negative i16 went through a sign-extended word and came back.
C7_Witness ==
    /\ ret.op = "roundtrip"
    /\ ret.val = [ty |-> "i16", bytes |-> <<1, 128>>]
    /\ ret.word = <<1, 128, 255, 255, 255, 255, 255, 255>>
    /\ ret.res = Ok(ret.val)

\* C9 as stated: FromArgs::from never panics: it returns Ok with exactly the
\* expected number of typed values, or Err.
C9_Original ==
    ret.op = "from" =>
        /\ ret.res.tag \in {"Ok", "Err"}
        /\ (ret.res.tag = "Ok" /\ ret.shape.kind = "tuple") =>
              Len(ret.res.val) = ShapeCount(ret.shape)

====
